---- MODULE Spec2Model ----
(***************************************************************************)
(* Model of the constellation background component                        *)
(* (src/components/ConstellationBackground.tsx): the Field (stars and     *)
(* root connections), its initializer, the simulation step, the frame     *)
(* loop and the effect's setup and cleanup.                                *)
(*                                                                         *)
(* Numbers.  The program computes in IEEE doubles; the model computes in   *)
(* fixed point, rounding down where the quotient or root is not exact:     *)
(*   positions and distances   1/100 px          (PosUnit per px)          *)
(*   Math.random()             r/100, r in 0..99 (RandDen)                 *)
(*   progress and speed        1/1000 percent    (ProgressFull = 100 %)    *)
(*   brightness, flickerSpeed  1/10000           (BrightUnit = 1.0)        *)
(*   star size                 1/1000 px                                   *)
(*   device pixel ratio, scale 1/100             (ScaleUnit = 1.0)         *)
(*   angles (phase variant)    1/100 rad, sines 1/1000                     *)
(* +Infinity (100 / 0) is the value Infinity, which absorbs addition.      *)
(*                                                                         *)
(* Objects.  A star's identity is its id <<run, index>>: the run of        *)
(* initSimulation that constructed it and its index in that run's stars.   *)
(* A RootConnection holds the ids of its two stars.                        *)
(*                                                                         *)
(* Randomness.  A run of initSimulation draws its Math.random() values, in *)
(* call order, from one of the sequences Rand(seed, 1), Rand(seed, 2), ... *)
(* for a seed the run picks.                                               *)
(*                                                                         *)
(* Callbacks.  The effect, its cleanup, resize, initSimulation and draw    *)
(* are synchronous callbacks of one thread: each runs to completion, and   *)
(* each is one action.                                                     *)
(*                                                                         *)
(* The copy of the component in src/components/Toast.tsx (lines 53-286)    *)
(* has the same effect, resize, RootConnection, initSimulation and cleanup;*)
(* it differs in Star (no update; draw derives alpha and radius from the   *)
(* time), in draw's time step and in the effect's dependencies.  Its Star  *)
(* is modelled by PhaseStarNew and StarDraw.                               *)
(***************************************************************************)
EXTENDS Integers, Sequences, FiniteSets

(***************************************************************************)
(* Bounds of the model.                                                    *)
(***************************************************************************)
MaxFrames == 2
MaxEvents == 2
MaxSeed == 1
MaxSteps == 12
MaxDistSteps == 6
MaxInits == 4
MaxTicks == 6
MaxToastTicks == 7
MaxToastProps == 2
MaxCardChanges == 2

(***************************************************************************)
(* Units of the fixed-point representation.                                *)
(***************************************************************************)
PosUnit == 10 * 10
RandDen == 10 * 10
ProgressFull == 100 * 1000
BrightUnit == 10 * 1000
Infinity == 1000 * 1000 * 1000
ScaleUnit == 10 * 10

(***************************************************************************)
(* Program constants.                                                      *)
(***************************************************************************)
CAPRICORN ==
    << [x |-> 20, y |-> 20], [x |-> 30, y |-> 15], [x |-> 40, y |-> 20],
       [x |-> 35, y |-> 30], [x |-> 25, y |-> 35], [x |-> 15, y |-> 30],
       [x |-> 10, y |-> 40], [x |-> 45, y |-> 25], [x |-> 50, y |-> 10] >>

CANCER ==
    << [x |-> 50, y |-> 50], [x |-> 40, y |-> 60], [x |-> 60, y |-> 60],
       [x |-> 50, y |-> 70], [x |-> 50, y |-> 40] >>

PatternScale == 300
StarDensity == 9000
ConnectThreshold == 120
ConnectChance == 70
DevicePixelRatio == 2

VARIABLES
    hasCanvas,     \* canvasRef.current is an element
    hasContainer,  \* containerRef.current is an element
    hasCtx,        \* el.getContext("2d") returns a context
    phase,         \* "idle", "running", "noop" (setup returned early), "unmounted"
    cw, ch,        \* the container's bounding box, px
    elW, elH,      \* the canvas pixel buffer
    ctxScale,      \* the context's scale factor (1.0 after a buffer reset)
    dpr,           \* the closure's dpr
    ops,           \* the drawing calls the component's last callback made, in order
    roConnected,   \* the ResizeObserver observes the container
    roLast,        \* the size the observer last reported
    listener,      \* initSimulation is a window "resize" listener
    timers,        \* pending setTimeout(resize, 0) timers
    rafPending,    \* handles of pending animation-frame requests
    rafNext,       \* the next handle requestAnimationFrame returns
    raf,           \* the closure's raf
    stopped,       \* the closure's stopped
    time,          \* the closure's time, in frames (0.05 each)
    stars,         \* the closure's stars
    roots,         \* the closure's roots
    inits,         \* runs of initSimulation so far
    fieldSize,     \* the width and height the last initSimulation read
    events,        \* events delivered by the host so far (resizes, prop changes)
    opacity,       \* the opacity prop, in 1/100
    conn,          \* a single RootConnection under simulation steps
    steps,         \* simulation steps applied to conn, or frames drawn of pstar
    star,          \* a single Star under simulation steps
    pstar,         \* a single Star of the phase-based variant (Toast.tsx)
    shown,         \* what the last draw of pstar gave the canvas
    toast,         \* a Toast (src/components/Toast.tsx 13-27) and its host
    card           \* an ArtifactCard (src/components/ArtifactCard.tsx) and its host

domVars == <<hasCanvas, hasContainer, hasCtx, cw, ch, elW, elH, ctxScale, dpr, ops>>
regVars == <<roConnected, roLast, listener, timers, rafPending, rafNext, raf>>
simVars == <<stopped, time, stars, roots, inits, fieldSize>>
unitVars == <<conn, steps, star, pstar, shown, toast, card>>
vars == <<domVars, regVars, simVars, unitVars, phase, events, opacity>>

(***************************************************************************)
(* Arithmetic helpers.                                                     *)
(***************************************************************************)
Abs(n) == IF n < 0 THEN -n ELSE n

Max(a, b) == IF a >= b THEN a ELSE b

\* a + b on doubles where either may be +Infinity
AddNum(a, b) == IF a = Infinity \/ b = Infinity THEN Infinity ELSE a + b

RECURSIVE SqrtSearch(_, _, _)
\* the largest k in lo..hi with k * k <= n (lo * lo <= n < (hi + 1)^2)
SqrtSearch(n, lo, hi) ==
    IF lo >= hi THEN lo
    ELSE LET mid == (lo + hi + 1) \div 2
         IN  IF mid * mid <= n THEN SqrtSearch(n, mid, hi)
             ELSE SqrtSearch(n, lo, mid - 1)

\* Math.hypot(dx, dy), rounded down to 1/100 px
Hypot(dx, dy) == SqrtSearch(dx * dx + dy * dy, 0, Abs(dx) + Abs(dy))

\* the k-th value Math.random() returns in a run of initSimulation, as r/100
Rand(seed, k) == ((seed + 1) * 37 * k + 11 * k * k + 53 * seed) % RandDen

Seeds == 0..MaxSeed

(***************************************************************************)
(* class RootConnection                                                    *)
(***************************************************************************)
\* speed = (0.5 + Math.random() * 0.5) * (100 / dist)
RootSpeed(dist, r) ==
    IF dist = 0 THEN Infinity
    ELSE ((100 + r) * 50 * 1000) \div dist

RootNew(s1, s2, dist, r) ==
    [startStar |-> s1, endStar |-> s2, maxDist |-> dist, progress |-> 0,
     speed |-> RootSpeed(dist, r)]

RootUpdateLate(c) ==
    IF c.progress <= ProgressFull
    THEN [c EXCEPT !.progress = AddNum(@, c.speed)]
    ELSE c

RootUpdateShrink(c) ==
    IF c.progress < ProgressFull
    THEN [c EXCEPT !.progress = IF c.speed = Infinity THEN Infinity ELSE @ - c.speed]
    ELSE c

RootUpdate(c) ==
    IF c.progress < ProgressFull
    THEN [c EXCEPT !.progress = AddNum(@, c.speed)]
    ELSE c


NoConn == [startStar |-> <<0, 0>>, endStar |-> <<0, 0>>, maxDist |-> 0,
           progress |-> 0, speed |-> 0]

(***************************************************************************)
(* class Star                                                              *)
(***************************************************************************)
\* the constructor's assignments, for the three draws rs, rb, rf:
\* size = random * 1.5 + 0.5, brightness = random, flickerSpeed = 0.02 + random * 0.05
StarNew(id, px, py, rs, rb, rf) ==
    [id |-> id, x |-> px, y |-> py,
     size |-> rs * 15 + 500,
     brightness |-> rb * (BrightUnit \div RandDen),
     flickerSpeed |-> 200 + rf * 5]

\* new Star(w, h, x, y): x and y given (a pattern point), three draws
StarAt(id, px, py, seed, d) ==
    StarNew(id, px, py, Rand(seed, d + 1), Rand(seed, d + 2), Rand(seed, d + 3))

\* new Star(w, h): x and y drawn too, five draws
StarRandom(id, w, h, seed, d) ==
    StarAt(id, Rand(seed, d + 1) * w, Rand(seed, d + 2) * h, seed, d + 2)

NoStar == [id |-> <<0, 0>>, x |-> 0, y |-> 0, size |-> 0, brightness |-> 0,
           flickerSpeed |-> 0]

StarUpdateDrift(s) ==
    LET b == s.brightness + s.flickerSpeed
    IN  [s EXCEPT !.brightness = b,
                  !.x = @ + s.flickerSpeed,
                  !.flickerSpeed = IF b > BrightUnit \/ b < BrightUnit \div 5
                                   THEN -@ ELSE @]

\* update(): brightness += flickerSpeed; outside (0.2, 1) the speed is negated
StarUpdate(s) ==
    LET b == s.brightness + s.flickerSpeed
    IN  [s EXCEPT !.brightness = b,
                  !.flickerSpeed = IF b > BrightUnit \/ b < BrightUnit \div 5
                                   THEN -@ ELSE @]

(***************************************************************************)
(* class Star of the phase-based variant (src/components/Toast.tsx): no    *)
(* update(); draw(ctx, t) derives alpha and radius from the time.          *)
(***************************************************************************)
Pi == 314
SinUnit == 10 * 100
TickStride == 10 * 100

\* Math.sin(a) for a >= 0, to 1/1000: the angle is reduced to a half period
\* x in [0, Pi) and the half wave is computed as
\* 16 x (Pi - x) / (5 Pi^2 - 4 x (Pi - x)), Bhaskara's approximation of the sine
Sin(a) ==
    LET r == a % (2 * Pi)
        x == r % Pi
        p == x * (Pi - x)
        v == (16 * p * SinUnit) \div (5 * Pi * Pi - 4 * p)
    IN  IF r < Pi THEN v ELSE -v

\* baseSize = random * 1.5 + 0.5, phase = random * 2 Pi,
\* flickerSpeed = 0.2 + random * 0.6 (in 1/1000)
PhaseStarNew(id, px, py, rs, rp, rf) ==
    [id |-> id, x |-> px, y |-> py,
     baseSize |-> rs * 15 + 500,
     phase |-> (rp * 2 * Pi) \div RandDen,
     flickerSpeed |-> 200 + rf * 6]

NoPhaseStar == [id |-> <<0, 0>>, x |-> 0, y |-> 0, baseSize |-> 0, phase |-> 0,
                flickerSpeed |-> 0]

\* t * flickerSpeed + phase after ticks frames of time += 0.025
PhaseAngle(s, ticks) == (ticks * 25 * s.flickerSpeed) \div (100 * 100) + s.phase

AlphaWide(sv) == (BrightUnit \div 2) + ((sv + SinUnit) * 5 * 1000) \div (2 * SinUnit)

\* alpha = 0.5 + ((sineValue + 1) / 2) * 0.4, in 1/10000
Alpha(sv) == (BrightUnit \div 2) + ((sv + SinUnit) * 4 * 1000) \div (2 * SinUnit)

\* 0.95 + ((sineValue + 1) / 2) * 0.1, in 1/10000
SizeFactor(sv) == 9500 + ((sv + SinUnit) * 1000) \div (2 * SinUnit)

\* draw(ctx, t): the fill alpha (1/10000), the radius of the arc
\* (baseSize * factor, in 1/10000 of baseSize's unit) and the shadowBlur left
StarDraw(s, ticks) ==
    LET sv == Sin(PhaseAngle(s, ticks))
    IN  [alpha |-> Alpha(sv),
         radius |-> s.baseSize * SizeFactor(sv),
         shadowBlur |-> IF Alpha(sv) > 8 * 1000 THEN 3 ELSE 0]

NoShown == [alpha |-> 0, radius |-> 0, shadowBlur |-> 0]

(***************************************************************************)
(* The Toast component (src/components/Toast.tsx 13-27).  toast is         *)
(*   phase    "idle" (before its effect), "mounted", "unmounted"           *)
(*   onClose  the identity of the onClose prop                             *)
(*   timer    the effect closure's timer id                                *)
(*   timers   the host's pending timers [id, cb, setAt]                    *)
(*   nextId   the id the next setTimeout returns                           *)
(*   now      the host's clock, ms                                         *)
(*   since    when the Toast mounted or onClose last changed               *)
(*   calls    the invocations of onClose so far, [cb, at]                  *)
(*   changes  changes of the onClose prop so far                           *)
(***************************************************************************)
ToastDelay == 3000
TickMs == 10 * 100

NoToast == [phase |-> "idle", onClose |-> 1, timer |-> 0, timers |-> {},
            nextId |-> 1, now |-> 0, since |-> 0, calls |-> <<>>, changes |-> 0]

\* const timer = setTimeout(() => { onClose(); }, 3000)
ToastEffect(t) ==
    [t EXCEPT !.timer = t.nextId,
              !.timers = @ \cup {[id |-> t.nextId, cb |-> t.onClose, setAt |-> t.now]},
              !.nextId = @ + 1,
              !.since = t.now]

ToastCleanupNone(t) == t

\* return () => clearTimeout(timer)
ToastCleanup(t) == [t EXCEPT !.timers = {x \in @ : x.id # t.timer}]

(***************************************************************************)
(* The ArtifactCard component (src/components/ArtifactCard.tsx).  card is  *)
(*   phase        "idle" (before its first render), "mounted", "unmounted" *)
(*   id, html     the props artifact.id and artifact.html; an html value   *)
(*                is <<text, length>>                                       *)
(*   displayHtml, renderDelayComplete    the component's state             *)
(*   htmlTimer, delayTimer   the timer ids of the two effect closures      *)
(*   timers       the host's pending timers [id, kind, left, val]: left is *)
(*                the time until the timer is due, val the html its        *)
(*                callback has captured                                    *)
(*   nextId       the id the next setTimeout returns                       *)
(*   sinceId      ms since the mount or the last change of artifact.id,    *)
(*                counted up to IframeDelay                                *)
(*   heldHtml     ms artifact.html has held its value, counted up to       *)
(*                HtmlDelay                                                *)
(*   commits      the renders committed by the last event, in order:       *)
(*                [iframe, id, since]                                      *)
(*   changes      prop changes so far                                      *)
(* An event (a prop change, a timer callback) is followed at once by the   *)
(* render it causes, the commit, the effects whose dependencies changed    *)
(* and the render their state updates cause.  isIframeLoaded and isClicked *)
(* are written but feed no timer and no condition of the iframe.           *)
(***************************************************************************)
HtmlDelay == 150
IframeDelay == 600
CardTickMs == HtmlDelay
IframeMinLength == 50

Htmls == { <<1, 0>>, <<2, 50>>, <<3, 51>>, <<4, 600>> }

NoCard == [phase |-> "idle", id |-> 1, html |-> <<1, 0>>, displayHtml |-> <<1, 0>>,
           renderDelayComplete |-> FALSE, htmlTimer |-> 0, delayTimer |-> 0,
           timers |-> {}, nextId |-> 1, sinceId |-> 0, heldHtml |-> 0,
           commits |-> <<>>, changes |-> 0]

\* showIframe = renderDelayComplete && displayHtml.length > 50; the iframe is
\* in the output exactly if showIframe
CardRender(c) ==
    [iframe |-> c.renderDelayComplete /\ c.displayHtml[2] > IframeMinLength,
     id |-> c.id, since |-> c.sinceId]

CardCommit(c) == [c EXCEPT !.commits = Append(@, CardRender(c))]

\* const timeout = setTimeout(() => { setDisplayHtml(artifact.html); }, 150)
HtmlEffect(c) ==
    [c EXCEPT !.htmlTimer = c.nextId,
              !.timers = @ \cup {[id |-> c.nextId, kind |-> "html",
                                  left |-> HtmlDelay, val |-> c.html]},
              !.nextId = @ + 1]

HtmlCleanupNone(c) == c

\* return () => clearTimeout(timeout)
HtmlCleanup(c) == [c EXCEPT !.timers = {x \in @ : x.id # c.htmlTimer}]

\* setIsIframeLoaded(false); setRenderDelayComplete(false);
\* const timer = setTimeout(() => { setRenderDelayComplete(true); }, 600)
IdEffect(c) ==
    [c EXCEPT !.renderDelayComplete = FALSE,
              !.delayTimer = c.nextId,
              !.timers = @ \cup {[id |-> c.nextId, kind |-> "delay",
                                  left |-> IframeDelay, val |-> c.html]},
              !.nextId = @ + 1]

\* return () => clearTimeout(timer)
IdCleanup(c) == [c EXCEPT !.timers = {x \in @ : x.id # c.delayTimer}]

\* the render a state update causes: none if the state is what it was, and
\* none of an unmounted component
CardRerender(before, c) ==
    IF c.phase = "mounted"
       /\ <<c.displayHtml, c.renderDelayComplete>>
            # <<before.displayHtml, before.renderDelayComplete>>
    THEN CardCommit(c)
    ELSE c

\* the first render (useState(artifact.html), useState(false)), its commit
\* and both effects
CardMounted(c) ==
    LET c0 == [c EXCEPT !.phase = "mounted", !.displayHtml = c.html,
                        !.renderDelayComplete = FALSE, !.sinceId = 0,
                        !.heldHtml = 0, !.commits = <<>>]
        c1 == CardCommit(c0)
    IN  CardRerender(c1, IdEffect(HtmlEffect(c1)))

\* the parent renders the card with props id and html
CardProps(c, id, html) ==
    LET c0 == [c EXCEPT !.id = id, !.html = html,
                        !.sinceId = IF id # c.id THEN 0 ELSE @,
                        !.heldHtml = IF html # c.html THEN 0 ELSE @,
                        !.changes = @ + 1, !.commits = <<>>]
        c1 == CardCommit(c0)
        c2 == IF html # c.html THEN HtmlEffect(HtmlCleanup(c1)) ELSE c1
        c3 == IF id # c.id THEN IdEffect(IdCleanup(c2)) ELSE c2
    IN  CardRerender(c1, c3)

\* the callback of the pending timer x
CardTimer(c, x) ==
    LET c0 == [c EXCEPT !.timers = @ \ {x}, !.commits = <<>>]
        c1 == IF x.kind = "html" THEN [c0 EXCEPT !.displayHtml = x.val]
              ELSE [c0 EXCEPT !.renderDelayComplete = TRUE]
    IN  CardRerender(c0, c1)

\* time passes by d ms
CardAfter(c, d) ==
    [c EXCEPT !.timers = {[x EXCEPT !.left = Max(0, @ - d)] : x \in @},
              !.sinceId = IF @ + d > IframeDelay THEN IframeDelay ELSE @ + d,
              !.heldHtml = IF @ + d > HtmlDelay THEN HtmlDelay ELSE @ + d,
              !.commits = <<>>]

StarDist(a, b) == Hypot(a.x - b.x, a.y - b.y)

CloseWide(a, b) ==
    /\ Abs(a.x - b.x) < 2 * ConnectThreshold * PosUnit
    /\ Abs(a.y - b.y) < 2 * ConnectThreshold * PosUnit
    /\ (a.x - b.x) * (a.x - b.x) + (a.y - b.y) * (a.y - b.y)
         < (2 * ConnectThreshold * PosUnit) * (2 * ConnectThreshold * PosUnit)

\* Math.hypot(...) < 120 for two stars, decided on the squares (far pairs first,
\* which keeps the squares small)
Close(a, b) ==
    /\ Abs(a.x - b.x) < ConnectThreshold * PosUnit
    /\ Abs(a.y - b.y) < ConnectThreshold * PosUnit
    /\ (a.x - b.x) * (a.x - b.x) + (a.y - b.y) * (a.y - b.y)
         < (ConnectThreshold * PosUnit) * (ConnectThreshold * PosUnit)

(***************************************************************************)
(* initSimulation.  A field under construction is                          *)
(* [stars, roots, draws]: draws counts the Math.random() calls made.       *)
(***************************************************************************)
ResetFieldKeep(old) == [stars |-> old.stars, roots |-> old.roots, draws |-> 0]

ResetFieldKeepRoots(old) == [stars |-> <<>>, roots |-> old.roots, draws |-> 0]

\* stars = []; roots = [];
ResetField(old) == [stars |-> <<>>, roots |-> <<>>, draws |-> 0]

AddConstellationClosed(F, pattern, scale, offsetX, offsetY, gen, seed) ==
    LET n  == Len(pattern)
        cs == [i \in 1..n |->
                 StarAt(<<gen, Len(F.stars) + i>>,
                        pattern[i].x * scale + offsetX,
                        pattern[i].y * scale + offsetY,
                        seed, F.draws + 3 * (i - 1))]
        d1 == F.draws + 3 * n
        ch1 == [i \in 1..n |->
                 RootNew(cs[i].id, cs[(i % n) + 1].id,
                         StarDist(cs[i], cs[(i % n) + 1]), Rand(seed, d1 + i))]
    IN  [stars |-> F.stars \o cs, roots |-> F.roots \o ch1, draws |-> d1 + n]

\* addConstellation(pattern, scale, offsetX, offsetY): a star per point, then
\* a connection from each point but the last to the next
AddConstellation(F, pattern, scale, offsetX, offsetY, gen, seed) ==
    LET n  == Len(pattern)
        cs == [i \in 1..n |->
                 StarAt(<<gen, Len(F.stars) + i>>,
                        pattern[i].x * scale + offsetX,
                        pattern[i].y * scale + offsetY,
                        seed, F.draws + 3 * (i - 1))]
        d1 == F.draws + 3 * n
        ch1 == [i \in 1..(n - 1) |->
                 RootNew(cs[i].id, cs[i + 1].id, StarDist(cs[i], cs[i + 1]),
                         Rand(seed, d1 + i))]
    IN  [stars |-> F.stars \o cs, roots |-> F.roots \o ch1,
         draws |-> d1 + (n - 1)]

NumStarsCeil(w, h) == (w * h + StarDensity - 1) \div StarDensity

\* Math.floor((width * height) / 9000)
NumStars(w, h) == (w * h) \div StarDensity

AddBackground(F, w, h, gen, seed) ==
    LET n  == NumStars(w, h)
        bs == [i \in 1..n |->
                 StarRandom(<<gen, Len(F.stars) + i>>, w, h, seed,
                            F.draws + 5 * (i - 1))]
    IN  [stars |-> F.stars \o bs, roots |-> F.roots, draws |-> F.draws + 5 * n]

\* the body of the inner loop for the pair (i, j)
ConnectPair(F, i, j, seed) ==
    IF ~Close(F.stars[i], F.stars[j]) THEN F
    ELSE IF Rand(seed, F.draws + 1) > ConnectChance
         THEN [F EXCEPT !.roots = Append(@, RootNew(F.stars[i].id, F.stars[j].id,
                                                    StarDist(F.stars[i], F.stars[j]),
                                                    Rand(seed, F.draws + 2))),
                        !.draws = @ + 2]
         ELSE [F EXCEPT !.draws = @ + 1]

RECURSIVE ConnectInner(_, _, _, _)
ConnectInner(F, i, j, seed) ==
    IF F.draws < 0 \/ j > Len(F.stars) THEN F
    ELSE ConnectInner(ConnectPair(F, i, j, seed), i, j + 1, seed)

RECURSIVE ConnectClose(_, _, _)
ConnectClose(F, i, seed) ==
    IF F.draws < 0 \/ i > Len(F.stars) THEN F
    ELSE ConnectClose(ConnectInner(F, i, i + 1, seed), i + 1, seed)

InitFromPatterns(F0, w, h, gen, seed) ==
    AddConstellation(
        AddConstellation(F0, CAPRICORN, PatternScale,
                         (w * PosUnit) \div 10, (h * PosUnit) \div 10, gen, seed),
        CANCER, PatternScale,
        (w * PosUnit * 6) \div 10, (h * PosUnit * 5) \div 10, gen, seed)

\* initSimulation after its two resets: patterns, background, close pairs
InitFrom(F0, w, h, gen, seed) ==
    LET F1 == AddConstellation(F0, CAPRICORN, PatternScale,
                               (w * PosUnit) \div 10, (h * PosUnit) \div 10, gen, seed)
        F2 == AddConstellation(F1, CANCER, PatternScale,
                               (w * PosUnit * 6) \div 10, (h * PosUnit * 5) \div 10,
                               gen, seed)
        F3 == AddBackground(F2, w, h, gen, seed)
    IN  ConnectClose(F3, 1, seed)

EmptyField == [stars |-> <<>>, roots |-> <<>>, draws |-> 0]

\* the container sizes the component is run at
SizeSeq == << <<0, 0>>, <<100, 90>>, <<200, 90>> >>
Sizes == {SizeSeq[i] : i \in 1..Len(SizeSeq)}
SizeIndex(w, h) == CHOOSE i \in 1..Len(SizeSeq) : SizeSeq[i] = <<w, h>>

\* InitFrom(EmptyField, ...) tabulated over the component's sizes, the runs
\* 1..MaxEvents + 1 and the seeds, so that each field is computed once
FieldTable ==
    [s \in 1..Len(SizeSeq) |->
        [g \in 1..(MaxEvents + 1) |->
            [k \in 1..(MaxSeed + 1) |->
                InitFrom(EmptyField, SizeSeq[s][1], SizeSeq[s][2], g, k - 1)]
            \o <<>>]
        \o <<>>]
    \o <<>>

InitSimulation(old, w, h, gen, seed) ==
    LET F0 == ResetField(old)
    IN  IF F0 = EmptyField /\ <<w, h>> \in Sizes /\ gen <= MaxEvents + 1
        THEN FieldTable[SizeIndex(w, h)][gen][seed + 1]
        ELSE InitFrom(F0, w, h, gen, seed)

PatternStars == Len(CAPRICORN) + Len(CANCER)


(***************************************************************************)
(* The component: one run of the effect, from setup to cleanup.            *)
(***************************************************************************)
\* Math.max(1, window.devicePixelRatio || 1), for the ratio raw (0: absent)
Dpr(raw) == Max(ScaleUnit, IF raw = 0 THEN ScaleUnit ELSE raw)

\* the component before its effect has run, on a display of ratio raw
InitAtRatio(raw) ==
    /\ hasCanvas \in BOOLEAN
    /\ hasContainer \in BOOLEAN
    /\ hasCtx \in {c \in BOOLEAN : c => hasCanvas}
    /\ phase = "idle"
    /\ \E size \in Sizes :
          /\ cw = IF hasContainer THEN size[1] ELSE 0
          /\ ch = IF hasContainer THEN size[2] ELSE 0
    /\ elW = IF hasCanvas THEN 300 ELSE 0
    /\ elH = IF hasCanvas THEN 150 ELSE 0
    /\ ctxScale = ScaleUnit
    /\ dpr = Dpr(raw)
    /\ ops = <<>>
    /\ roConnected = FALSE
    /\ roLast = <<0, 0>>
    /\ listener = FALSE
    /\ timers = 0
    /\ rafPending = {}
    /\ rafNext = 1
    /\ raf = 0
    /\ stopped = FALSE
    /\ time = 0
    /\ stars = <<>>
    /\ roots = <<>>
    /\ inits = 0
    /\ fieldSize = <<0, 0>>
    /\ events = 0
    /\ opacity = 100
    /\ conn = NoConn
    /\ steps = 0
    /\ star = NoStar
    /\ pstar = NoPhaseStar
    /\ shown = NoShown
    /\ toast = NoToast
    /\ card = NoCard

Init == InitAtRatio(DevicePixelRatio * ScaleUnit)

\* the component before its effect has run, all elements present, no layout yet
Idle ==
    /\ hasCanvas = TRUE /\ hasContainer = TRUE /\ hasCtx = TRUE
    /\ phase = "idle"
    /\ cw = 0 /\ ch = 0 /\ elW = 300 /\ elH = 150 /\ ctxScale = ScaleUnit
    /\ dpr = Dpr(DevicePixelRatio * ScaleUnit)
    /\ ops = <<>>
    /\ roConnected = FALSE /\ roLast = <<0, 0>> /\ listener = FALSE
    /\ timers = 0 /\ rafPending = {} /\ rafNext = 1 /\ raf = 0
    /\ stopped = FALSE /\ time = 0 /\ stars = <<>> /\ roots = <<>>
    /\ inits = 0 /\ fieldSize = <<0, 0>> /\ events = 0 /\ opacity = 100

SetupGuardCanvasOnly == hasCanvas

\* if (!el || !container) return; ... if (!ctx) return;
SetupGuard == hasCanvas /\ hasContainer /\ hasCtx

ResizeKeepTransform ==
    /\ elW' = Max(1, (cw * dpr) \div ScaleUnit)
    /\ elH' = Max(1, (ch * dpr) \div ScaleUnit)
    /\ ctxScale' = (ctxScale * dpr) \div ScaleUnit

\* resize(): the buffer is set, which resets the context to the identity
\* transform, then ctx.scale(dpr, dpr)
Resize ==
    /\ elW' = Max(1, (cw * dpr) \div ScaleUnit)
    /\ elH' = Max(1, (ch * dpr) \div ScaleUnit)
    /\ ctxScale' = (ScaleUnit * dpr) \div ScaleUnit

\* initSimulation() of a closure whose stars and roots are old, reading the
\* container's box (w, h)
RunInitFrom(old, w, h) ==
    \E seed \in Seeds :
        LET F == InitSimulation(old, w, h, inits + 1, seed)
        IN  /\ stars' = F.stars
            /\ roots' = F.roots
            /\ inits' = inits + 1
            /\ fieldSize' = <<w, h>>

\* initSimulation() of the running closure
RunInit(w, h) == RunInitFrom([stars |-> stars, roots |-> roots], w, h)

\* the values the parent passes as opacity
Opacities == {50, 100}

\* the effect
Setup ==
    /\ phase = "idle"
    /\ IF ~SetupGuard
       THEN /\ phase' = "noop"
            /\ UNCHANGED <<domVars, regVars, simVars, unitVars, events, opacity>>
       ELSE /\ phase' = "running"
            /\ roConnected' = TRUE
            /\ roLast' = <<0, 0>>
            /\ timers' = timers + 1
            /\ listener' = TRUE
            /\ RunInit(cw, ch)
            /\ raf' = rafNext
            /\ rafPending' = rafPending \cup {rafNext}
            /\ rafNext' = rafNext + 1
            /\ UNCHANGED <<domVars, stopped, time, unitVars, events, opacity>>

\* the timer of setTimeout(resize, 0) fires
TimerFire ==
    /\ timers > 0
    /\ timers' = timers - 1
    /\ Resize
    /\ ops' = <<>>
    /\ UNCHANGED <<hasCanvas, hasContainer, hasCtx, dpr, cw, ch,
                   roConnected, roLast,
                   listener, rafPending, rafNext, raf, simVars, unitVars, phase,
                   events, opacity>>

\* the ResizeObserver reports the container's size: its callback is resize
ObserverNotify ==
    /\ roConnected
    /\ roLast # <<cw, ch>>
    /\ roLast' = <<cw, ch>>
    /\ Resize
    /\ ops' = <<>>
    /\ UNCHANGED <<hasCanvas, hasContainer, hasCtx, dpr, cw, ch,
                   roConnected,
                   listener, timers, rafPending, rafNext, raf, simVars, unitVars,
                   phase, events, opacity>>

\* the host lays the container out at another size; the window keeps its size
ContainerResize ==
    /\ phase \in {"running", "noop"}
    /\ hasContainer
    /\ events < MaxEvents
    /\ \E size \in Sizes \ {<<cw, ch>>} :
          /\ cw' = size[1]
          /\ ch' = size[2]
    /\ events' = events + 1
    /\ UNCHANGED <<hasCanvas, hasContainer, hasCtx, elW, elH, ctxScale, dpr, ops,
                   regVars,
                   simVars, unitVars, phase, opacity>>

\* the window fires "resize"; the container is laid out at a size, new or not
WindowResize ==
    /\ phase \in {"running", "noop", "unmounted"}
    /\ events < MaxEvents
    /\ events' = events + 1
    /\ \E size \in Sizes :
          /\ cw' = IF hasContainer /\ phase # "unmounted" THEN size[1] ELSE cw
          /\ ch' = IF hasContainer /\ phase # "unmounted" THEN size[2] ELSE ch
    /\ IF listener
       THEN /\ RunInit(cw', ch')
            /\ ops' = <<>>
            /\ UNCHANGED <<stopped, time>>
       ELSE UNCHANGED <<simVars, ops>>
    /\ UNCHANGED <<hasCanvas, hasContainer, hasCtx, elW, elH, ctxScale, dpr,
                   regVars,
                   unitVars, phase, opacity>>

\* roots.forEach(r => { r.update(); r.draw(ctx); }): the drawing calls for
\* connections that update() has left as rs; draw strokes if progress > 0
RootCalls(rs) ==
    SelectSeq([k \in 1..Len(rs) |-> <<"stroke", k>>],
              LAMBDA e : rs[e[2]].progress > 0)

\* stars.forEach(s => { s.update(); s.draw(ctx); })
StarCalls(ss) == [k \in 1..Len(ss) |-> <<"fill", k>>]

DrawCallsStarsFirst(rs, ss) ==
    << <<"clearRect", 0>>, <<"save", 0>> >> \o StarCalls(ss) \o RootCalls(rs)
        \o << <<"restore", 0>>, <<"requestAnimationFrame", 0>> >>

\* the calls of one draw(), given the connections and stars its updates leave
DrawCalls(rs, ss) ==
    << <<"clearRect", 0>>, <<"save", 0>> >> \o RootCalls(rs) \o StarCalls(ss)
        \o << <<"restore", 0>>, <<"requestAnimationFrame", 0>> >>

\* draw(), the callback of the request with handle h
Frame(h) ==
    /\ h \in rafPending
    /\ time < MaxFrames
    /\ IF stopped
       THEN /\ rafPending' = rafPending \ {h}
            /\ ops' = <<>>
            /\ UNCHANGED <<rafNext, raf, simVars>>
       ELSE /\ time' = time + 1
            /\ roots' = [i \in 1..Len(roots) |-> RootUpdate(roots[i])]
            /\ stars' = [i \in 1..Len(stars) |-> StarUpdate(stars[i])]
            /\ ops' = DrawCalls(roots', stars')
            /\ raf' = rafNext
            /\ rafPending' = (rafPending \ {h}) \cup {rafNext}
            /\ rafNext' = rafNext + 1
            /\ UNCHANGED <<stopped, inits, fieldSize>>
    /\ UNCHANGED <<hasCanvas, hasContainer, hasCtx, cw, ch, elW, elH, ctxScale, dpr,
                   roConnected, roLast, listener, timers, unitVars, phase, events,
                   opacity>>

CleanupNoCancel ==
    [stopped |-> TRUE, rafPending |-> rafPending, listener |-> FALSE,
     roConnected |-> FALSE, timers |-> timers]

CleanupOnlyObservers ==
    [stopped |-> stopped, rafPending |-> rafPending, listener |-> FALSE,
     roConnected |-> FALSE, timers |-> timers]

\* the effect's cleanup: what it leaves of the closure and the registrations
Cleanup ==
    [stopped |-> TRUE, rafPending |-> rafPending \ {raf}, listener |-> FALSE,
     roConnected |-> FALSE, timers |-> timers]

\* the component unmounts: its elements leave the document, the cleanup runs
Unmount ==
    /\ phase \in {"running", "noop"}
    /\ phase' = "unmounted"
    /\ cw' = 0
    /\ ch' = 0
    /\ IF phase = "running"
       THEN /\ stopped' = Cleanup.stopped
            /\ rafPending' = Cleanup.rafPending
            /\ listener' = Cleanup.listener
            /\ roConnected' = Cleanup.roConnected
            /\ timers' = Cleanup.timers
            /\ ops' = <<>>
       ELSE UNCHANGED <<stopped, rafPending, listener, roConnected, timers, ops>>
    /\ UNCHANGED <<hasCanvas, hasContainer, hasCtx, elW, elH, ctxScale, dpr,
                   roLast,
                   rafNext, raf, time, stars, roots, inits, fieldSize, unitVars,
                   events, opacity>>

\* the parent renders the component with another opacity: the effect depends
\* on [opacity], so its cleanup runs and then the effect runs again, in a new
\* closure (raf = 0, stopped = false, time = 0, empty stars and roots, a new
\* observer); the timers of the old closure stay pending
OpacityChange ==
    /\ phase \in {"running", "noop"}
    /\ events < MaxEvents
    /\ events' = events + 1
    /\ \E o \in Opacities \ {opacity} : opacity' = o
    /\ IF phase = "running"
       THEN /\ stopped' = FALSE
            /\ time' = 0
            /\ roConnected' = TRUE
            /\ roLast' = <<0, 0>>
            /\ timers' = Cleanup.timers + 1
            /\ listener' = TRUE
            /\ RunInitFrom([stars |-> <<>>, roots |-> <<>>], cw, ch)
            /\ raf' = rafNext
            /\ rafPending' = Cleanup.rafPending \cup {rafNext}
            /\ rafNext' = rafNext + 1
            /\ ops' = <<>>
       ELSE UNCHANGED <<regVars, simVars, ops>>
    /\ UNCHANGED <<hasCanvas, hasContainer, hasCtx, cw, ch, elW, elH, ctxScale, dpr,
                   unitVars, phase>>

Next ==
    \/ Setup
    \/ TimerFire
    \/ ObserverNotify
    \/ ContainerResize
    \/ WindowResize
    \/ \E h \in rafPending : Frame(h)
    \/ OpacityChange
    \/ Unmount

Spec == Init /\ [][Next]_vars

(***************************************************************************)
(* The canvas under resizes: the effect on displays of several ratios,     *)
(* with its timer, its observer and the container laid out at other sizes. *)
(***************************************************************************)
RawRatios == {0, 75, 100, 125, 150, 200, 300}

InitCanvas ==
    /\ \E raw \in RawRatios : InitAtRatio(raw)
    /\ hasCanvas
    /\ hasContainer
    /\ hasCtx

NextCanvas ==
    \/ Setup
    \/ TimerFire
    \/ ObserverNotify
    \/ ContainerResize

SpecCanvas == InitCanvas /\ [][NextCanvas]_vars

(***************************************************************************)
(* One RootConnection under repeated simulation steps: the constructor on  *)
(* a distance and a draw, then update() step after step.                   *)
(***************************************************************************)
DistStep == 5 * PosUnit
Dists == {DistStep * k : k \in 1..MaxDistSteps}
RandVals == {0, 1, 50, 99}

InitRoot ==
    /\ Idle
    /\ \E d \in Dists, r \in RandVals : conn = RootNew(<<1, 1>>, <<1, 2>>, d, r)
    /\ steps = 0
    /\ star = NoStar
    /\ pstar = NoPhaseStar
    /\ shown = NoShown
    /\ toast = NoToast
    /\ card = NoCard

RootStep ==
    /\ steps < MaxSteps
    /\ conn' = RootUpdate(conn)
    /\ steps' = steps + 1
    /\ UNCHANGED <<domVars, regVars, simVars, phase, events, opacity, star, pstar, shown,
                   toast, card>>

SpecRoot == InitRoot /\ [][RootStep]_vars

(***************************************************************************)
(* One Star of the accumulator variant under repeated simulation steps:    *)
(* the constructor on its draws, then update() frame after frame for as    *)
(* long as the frame loop runs.                                            *)
(***************************************************************************)
FlickerDraws == {0, 50, 99}

InitStar ==
    /\ Idle
    /\ conn = NoConn
    /\ steps = 0
    /\ \E rb \in 0..(RandDen - 1), rf \in FlickerDraws :
          star = StarNew(<<1, 1>>, 0, 0, 0, rb, rf)
    /\ pstar = NoPhaseStar
    /\ shown = NoShown
    /\ toast = NoToast
    /\ card = NoCard

StarStep ==
    /\ star' = StarUpdate(star)
    /\ UNCHANGED <<domVars, regVars, simVars, phase, events, opacity, conn, steps, pstar,
                   shown, toast, card>>

SpecStar == InitStar /\ [][StarStep]_vars

\* draw() requests the next frame at its end, so while the component is
\* mounted the next step is always taken eventually
SpecStarFair == SpecStar /\ WF_vars(StarStep)

(***************************************************************************)
(* One Star of the phase-based variant under repeated frames: the          *)
(* constructor on its draws, then draw(ctx, time) after each time += 0.025.*)
(* A run is followed for MaxTicks frames from the start or from a later    *)
(* frame of the loop.                                                      *)
(***************************************************************************)
TickStarts == {0, 4 * TickStride, 50 * TickStride}
SizeDraws == {0, 99}
SpeedDraws == {0, 99}

InitPhase ==
    /\ Idle
    /\ conn = NoConn
    /\ star = NoStar
    /\ steps \in TickStarts
    /\ \E rs \in SizeDraws, rp \in 0..(RandDen - 1), rf \in SpeedDraws :
          pstar = PhaseStarNew(<<1, 1>>, 0, 0, rs, rp, rf)
    /\ shown = NoShown
    /\ toast = NoToast
    /\ card = NoCard

PhaseFrame ==
    /\ steps % TickStride < MaxTicks
    /\ steps' = steps + 1
    /\ shown' = StarDraw(pstar, steps')
    /\ UNCHANGED <<domVars, regVars, simVars, phase, events, opacity, conn, star, pstar,
                   toast, card>>

SpecPhase == InitPhase /\ [][PhaseFrame]_vars

(***************************************************************************)
(* The Toast under its host: mount, the clock, the timer, changes of the   *)
(* onClose prop, unmount.  A timer fires at or after its delay.            *)
(***************************************************************************)
InitToast ==
    /\ Idle
    /\ conn = NoConn
    /\ steps = 0
    /\ star = NoStar
    /\ pstar = NoPhaseStar
    /\ shown = NoShown
    /\ toast = NoToast
    /\ card = NoCard

ToastRest ==
    UNCHANGED <<domVars, regVars, simVars, phase, events, opacity, conn, steps,
                star, pstar, shown, card>>

ToastMount ==
    /\ toast.phase = "idle"
    /\ toast' = ToastEffect([toast EXCEPT !.phase = "mounted"])
    /\ ToastRest

ToastTick ==
    /\ toast.now < MaxToastTicks * TickMs
    /\ toast' = [toast EXCEPT !.now = @ + TickMs]
    /\ ToastRest

\* the host runs the callback of a timer that is due
ToastTimerFire ==
    /\ \E x \in toast.timers :
          /\ toast.now - x.setAt >= ToastDelay
          /\ toast' = [toast EXCEPT !.timers = @ \ {x},
                                    !.calls = Append(@, [cb |-> x.cb, at |-> toast.now])]
    /\ ToastRest

\* the parent renders the Toast with another onClose: the effect depends on
\* [onClose], so its cleanup runs and then the effect again
ToastOnCloseChange ==
    /\ toast.phase = "mounted"
    /\ toast.changes < MaxToastProps
    /\ toast' = ToastEffect([ToastCleanup(toast) EXCEPT !.onClose = @ + 1,
                                                        !.changes = @ + 1])
    /\ ToastRest

ToastUnmount ==
    /\ toast.phase = "mounted"
    /\ toast' = [ToastCleanup(toast) EXCEPT !.phase = "unmounted"]
    /\ ToastRest

NextToast ==
    \/ ToastMount
    \/ ToastTick
    \/ ToastTimerFire
    \/ ToastOnCloseChange
    \/ ToastUnmount

SpecToast == InitToast /\ [][NextToast]_vars

(***************************************************************************)
(* The ArtifactCard under its host: mount, prop changes, the passing of    *)
(* time, timer callbacks (at or after the delay), unmount.                 *)
(***************************************************************************)
InitCard ==
    /\ Idle
    /\ conn = NoConn
    /\ steps = 0
    /\ star = NoStar
    /\ pstar = NoPhaseStar
    /\ shown = NoShown
    /\ toast = NoToast
    /\ \E h \in Htmls : card = [NoCard EXCEPT !.html = h, !.displayHtml = h]

CardRest ==
    UNCHANGED <<domVars, regVars, simVars, phase, events, opacity, conn, steps,
                star, pstar, shown, toast>>

CardMount ==
    /\ card.phase = "idle"
    /\ card' = CardMounted(card)
    /\ CardRest

CardHtmlChange ==
    /\ card.phase = "mounted"
    /\ card.changes < MaxCardChanges
    /\ \E h \in Htmls \ {card.html} : card' = CardProps(card, card.id, h)
    /\ CardRest

CardIdChange ==
    /\ card.phase = "mounted"
    /\ card.changes < MaxCardChanges
    /\ \E h \in Htmls : card' = CardProps(card, card.id + 1, h)
    /\ CardRest

CardTick ==
    /\ card.phase # "idle"
    /\ \/ \E x \in card.timers : x.left > 0
       \/ card.phase = "mounted" /\ card.sinceId < IframeDelay
    /\ card' = CardAfter(card, CardTickMs)
    /\ CardRest

CardTimerFire ==
    /\ \E x \in card.timers :
          /\ x.left = 0
          /\ card' = CardTimer(card, x)
    /\ CardRest

CardUnmount ==
    /\ card.phase = "mounted"
    /\ card' = [IdCleanup(HtmlCleanup(card)) EXCEPT !.phase = "unmounted",
                                                    !.commits = <<>>]
    /\ CardRest

NextCard ==
    \/ CardMount
    \/ CardHtmlChange
    \/ CardIdChange
    \/ CardTick
    \/ CardTimerFire
    \/ CardUnmount

SpecCard == InitCard /\ [][NextCard]_vars

\* the host's clock runs and it runs the callbacks of due timers
SpecCardFair == SpecCard /\ WF_vars(CardTick) /\ WF_vars(CardTimerFire)

(***************************************************************************)
(* The Field Initializer alone: initSimulation at a viewport, and again at *)
(* the same viewport.                                                      *)
(***************************************************************************)
InitSizes ==
    { <<0, 0>>, <<0, 90>>, <<100, 0>>, <<0, 600>>, <<900, 0>>,
      <<94, 95>>, <<95, 95>>, <<100, 90>>, <<200, 90>>, <<150, 120>>,
      <<300, 150>>, <<300, 300>>, <<600, 300>>, <<900, 600>> }

InitField ==
    /\ Idle
    /\ conn = NoConn
    /\ steps = 0
    /\ star = NoStar
    /\ pstar = NoPhaseStar
    /\ shown = NoShown
    /\ toast = NoToast
    /\ card = NoCard

InitAt ==
    /\ inits = 0
    /\ \E size \in InitSizes :
          /\ cw' = size[1]
          /\ ch' = size[2]
    /\ RunInit(cw', ch')
    /\ UNCHANGED <<hasCanvas, hasContainer, hasCtx, elW, elH, ctxScale, dpr, ops,
                   regVars,
                   stopped, time, unitVars, phase, events, opacity>>

InitAgain ==
    /\ inits \in 1..(MaxInits - 1)
    /\ RunInit(cw, ch)
    /\ UNCHANGED <<domVars, regVars, stopped, time, unitVars, phase, events,
                   opacity>>

NextField == InitAt \/ InitAgain

SpecInit == InitField /\ [][NextField]_vars

(***************************************************************************)
(* Properties.                                                             *)
(***************************************************************************)
StarIds(ss) == {ss[i].id : i \in 1..Len(ss)}

\* C1: the progress of every RootConnection lies within [0, 100] after any
\* number of simulation steps.
C1_ProgressInRange ==
    conn.progress >= 0 /\ conn.progress <= ProgressFull

\* C2: no step lowers the progress of a connection of the Field that exists
\* before and after the step.
C2_ProgressNonDecreasing ==
    [][\A i \in 1..Len(roots) :
          (/\ i <= Len(roots')
           /\ roots'[i].startStar = roots[i].startStar
           /\ roots'[i].endStar = roots[i].endStar)
          => roots'[i].progress >= roots[i].progress]_vars

C2_Witness ==
    /\ phase = "running"
    /\ time >= 2
    /\ \E i \in 1..Len(roots) :
          roots[i].progress >= 2 * roots[i].speed /\ roots[i].speed > 0

\* C3: a connection of speed 10 started at 0 is below 100 after each of its
\* first 9 steps, at 100 after exactly 10 steps and still at 100 after the 11th.
C3_SpeedTenScenario ==
    conn.speed = 10 * 1000 =>
        /\ steps <= 9 => conn.progress = steps * 10 * 1000 /\ conn.progress < ProgressFull
        /\ steps = 10 => conn.progress = ProgressFull
        /\ steps = 11 => conn.progress = ProgressFull

C3_Witness ==
    conn.speed = 10 * 1000 /\ steps = 11 /\ conn.progress = ProgressFull

\* C4: after any run of initSimulation at width w and height h the Field holds
\* floor(w * h / 9000) + 14 stars, 74 at 900 x 600, and a second run at the
\* same viewport gives the same count.
C4_StarCount ==
    /\ [](inits > 0 =>
            /\ Len(stars) = (fieldSize[1] * fieldSize[2]) \div 9000 + 9 + 5
            /\ fieldSize = <<900, 600>> => Len(stars) = 74)
    /\ [][inits > 0 /\ inits' > inits /\ fieldSize' = fieldSize
            => Len(stars') = Len(stars)]_vars

C4_Witness ==
    inits = 2 /\ fieldSize = <<900, 600>> /\ Len(stars) = 74

\* C5: a viewport of zero area at initialization or at a rebuild yields an
\* empty Field, no stars and no connections.
C5_ZeroAreaEmptyField ==
    (phase = "running" /\ (fieldSize[1] = 0 \/ fieldSize[2] = 0))
        => (Len(stars) = 0 /\ Len(roots) = 0)

\* C6: once the observer's notification of the container's size has been
\* handled, the Field's background star count is floor(w * h / 9000) for the
\* container's current width w and height h.
C6_ObservedSizeRebuilds ==
    (phase = "running" /\ roConnected /\ roLast = <<cw, ch>> /\ roLast # <<0, 0>>)
        => Len(stars) - PatternStars = (cw * ch) \div 9000

\* C7: a window resize event runs initSimulation exactly once, and the run
\* replaces the Field: at an unchanged viewport the star count is unchanged,
\* and no star of the previous Field, and no connection to one, is in the new
\* Field.
C7_ResizeReplaces ==
    [][(WindowResize /\ listener) =>
          /\ inits' = inits + 1
          /\ fieldSize' = fieldSize => Len(stars') = Len(stars)
          /\ StarIds(stars') \cap StarIds(stars) = {}
          /\ \A i \in 1..Len(roots') :
                /\ roots'[i].startStar \notin StarIds(stars)
                /\ roots'[i].endStar \notin StarIds(stars)
                /\ roots'[i].progress = 0]_vars

C7_Witness ==
    /\ phase = "running"
    /\ inits = 3
    /\ fieldSize = <<100, 90>>
    /\ Len(stars) = 15
    /\ \A i \in 1..Len(stars) : stars[i].id[1] = 3

\* C8: after the cleanup has run no frame is drawn: no step advances the
\* simulation time, the connections or the stars, or requests a frame.
C8_NoFrameAfterTeardown ==
    [][phase = "unmounted" =>
          /\ time' = time
          /\ roots' = roots
          /\ stars' = stars
          /\ raf' = raf
          /\ rafPending' \subseteq rafPending]_vars

C8_Witness ==
    /\ phase = "unmounted"
    /\ stopped
    /\ time >= 1
    /\ time < MaxFrames
    /\ raf \notin rafPending

\* C9: after teardown nothing the component registered is live: no pending
\* timer, no pending frame request, no window listener, no observer.
C9_NothingLiveAfterTeardown ==
    phase = "unmounted" =>
        /\ timers = 0
        /\ rafPending = {}
        /\ ~listener
        /\ ~roConnected

\* C10: with the canvas, the container or the 2D context absent the effect
\* does nothing: nothing is registered or requested, no Field is built, and
\* unmounting finds nothing to clean up.
C10_AbsentRefsNoWork ==
    ~(hasCanvas /\ hasContainer /\ hasCtx) =>
        /\ phase \in {"idle", "noop", "unmounted"}
        /\ ~roConnected
        /\ ~listener
        /\ timers = 0
        /\ rafPending = {}
        /\ raf = 0
        /\ inits = 0
        /\ stars = <<>>
        /\ roots = <<>>
        /\ time = 0
        /\ elW = (IF hasCanvas THEN 300 ELSE 0)
        /\ ctxScale = ScaleUnit

C10_Witness ==
    /\ phase = "unmounted"
    /\ hasCanvas
    /\ hasContainer
    /\ ~hasCtx
    /\ events > 0

\* C11: in every reachable state both endpoints of every RootConnection of the
\* current roots are stars of the current stars; no connection refers to a
\* star of a discarded Field.
C11_EndpointsInField ==
    \A i \in 1..Len(roots) :
        /\ roots[i].startStar \in StarIds(stars)
        /\ roots[i].endStar \in StarIds(stars)

C11_Witness ==
    /\ inits >= 2
    /\ time >= 1
    /\ Len(roots) > PatternStars - 2
    /\ \A i \in 1..Len(roots) : roots[i].startStar[1] = inits

InBand(b) == b >= BrightUnit \div 5 /\ b <= BrightUnit

\* C12: in the accumulator variant a star's brightness is within [0.2, 1.0]
\* in every state, from the constructor on and after any number of steps.
C12_BrightnessInBand ==
    InBand(star.brightness)

\* C17: whenever a star's brightness is outside [0.2, 1.0], it is within
\* [0.2, 1.0] again after finitely many further steps.
C17_ReentersBand ==
    [](~InBand(star.brightness) => <>InBand(star.brightness))

\* C13: in the phase-based variant every drawn star has fill alpha within
\* [0.5, 0.9] and radius within baseSize x [0.95, 1.05], at every time and for
\* every phase and flickerSpeed, and no frame changes a field of the star.
C13_PhaseBands ==
    /\ [](shown # NoShown =>
            /\ shown.alpha >= 5 * 1000
            /\ shown.alpha <= 9 * 1000
            /\ shown.radius >= pstar.baseSize * 95 * 100
            /\ shown.radius <= pstar.baseSize * 105 * 100)
    /\ [][pstar' = pstar]_vars

C13_Witness ==
    /\ steps > 50 * TickStride
    /\ shown.alpha > 8950
    /\ shown.radius > pstar.baseSize * 10490
    /\ shown.shadowBlur = 3

\* C14: a change of the opacity input leaves the Field, the simulation time and
\* the frame loop as they are: no teardown and no rebuild.
C14_OpacityCosmetic ==
    [][opacity' # opacity =>
          /\ stars' = stars
          /\ roots' = roots
          /\ inits' = inits
          /\ time' = time
          /\ stopped' = stopped
          /\ raf' = raf
          /\ rafPending' = rafPending
          /\ roConnected' = roConnected
          /\ listener' = listener]_vars

\* what a complete Field of run g at width w and height h has: the stars of
\* both patterns and the floor(w * h / 9000) background stars, all of run g,
\* the chain connections, and connections between stars of run g only
FieldComplete(ss, rs, g, w, h) ==
    /\ Len(ss) = 9 + 5 + (w * h) \div 9000
    /\ \A i \in 1..Len(ss) : ss[i].id = <<g, i>>
    /\ Len(rs) >= 8 + 4
    /\ \A i \in 1..Len(rs) :
          /\ rs[i].startStar \in StarIds(ss)
          /\ rs[i].endStar \in StarIds(ss)

\* C15: whatever resize events and frames have interleaved, the stars and
\* roots a frame finds are the complete Field of the most recent rebuild,
\* never an emptied or partly filled one.
C15_FrameSeesCompleteField ==
    (phase = "running" /\ rafPending # {}) =>
        FieldComplete(stars, roots, inits, fieldSize[1], fieldSize[2])

C15_Witness ==
    /\ phase = "running"
    /\ raf \in rafPending
    /\ events = MaxEvents
    /\ inits >= 2
    /\ time = 1
    /\ fieldSize = <<200, 90>>
    /\ Len(stars) = 16

\* C16: every handled resize notification leaves the canvas buffer at
\* max(1, floor(width * dpr)) by max(1, floor(height * dpr)) for the
\* container's current size and the context's scale at exactly dpr; the scale
\* is never a power of dpr above the first, and is dpr, not 1, once a resize
\* has run on a display of ratio above 1.
C16_BufferAndScale ==
    /\ [][ObserverNotify =>
            /\ elW' = (IF (cw' * dpr') \div 100 >= 1 THEN (cw' * dpr') \div 100 ELSE 1)
            /\ elH' = (IF (ch' * dpr') \div 100 >= 1 THEN (ch' * dpr') \div 100 ELSE 1)
            /\ ctxScale' = dpr']_vars
    /\ [](ctxScale \in {100, dpr})
    /\ []((roConnected /\ roLast # <<0, 0>>) => ctxScale = dpr)

C16_Witness ==
    /\ dpr = 125
    /\ events = MaxEvents
    /\ timers = 0
    /\ roLast = <<100, 90>>
    /\ cw = 100 /\ ch = 90
    /\ elW = 125 /\ elH = 112
    /\ ctxScale = 125

\* the calls named op among a sequence of calls, in order
CallsOf(calls, op) == SelectSeq(calls, LAMBDA e : e[1] = op)

\* the stage of a frame a call belongs to
CallStage(call) ==
    CASE call[1] = "clearRect" -> 0
      [] call[1] = "save" -> 1
      [] call[1] = "stroke" -> 2
      [] call[1] = "fill" -> 3
      [] call[1] = "restore" -> 4
      [] call[1] = "requestAnimationFrame" -> 5

\* C18: in every frame the surface is cleared first; then each connection is
\* advanced by one simulation step and drawn (stroked only if its progress is
\* above 0); only after all connections each star is drawn; and the frame ends
\* with its one request for the next frame.
C18_FrameOrder ==
    [][time' = time + 1 =>
          /\ ops'[1] = <<"clearRect", 0>>
          /\ ops'[Len(ops')][1] = "requestAnimationFrame"
          /\ \A i \in 1..(Len(ops') - 1) :
                /\ CallStage(ops'[i]) <= CallStage(ops'[i + 1])
                /\ ops'[i][1] # "requestAnimationFrame"
                /\ ops'[i + 1][1] # "clearRect"
          /\ Cardinality(rafPending' \ rafPending) = 1
          /\ raf' \in rafPending' \ rafPending
          /\ Len(roots') = Len(roots)
          /\ \A k \in 1..Len(roots) :
                roots'[k].progress =
                    (IF roots[k].progress < 100 * 1000
                     THEN AddNum(roots[k].progress, roots[k].speed)
                     ELSE roots[k].progress)
          /\ CallsOf(ops', "stroke")
                = SelectSeq([k \in 1..Len(roots) |-> <<"stroke", k>>],
                            LAMBDA e : roots'[e[2]].progress > 0)
          /\ CallsOf(ops', "fill") = [k \in 1..Len(stars') |-> <<"fill", k>>]]_vars

C18_Witness ==
    /\ time = 2
    /\ Len(ops) = 4 + Len(roots) + Len(stars)
    /\ Len(roots) > 8 + 4
    /\ ops[2 + Len(roots)] = <<"stroke", Len(roots)>>
    /\ ops[3 + Len(roots)] = <<"fill", 1>>
    /\ raf \in rafPending

\* the k-th connection joins the i-th star to the j-th
Joins(k, i, j) ==
    roots[k].startStar = stars[i].id /\ roots[k].endStar = stars[j].id

\* C19: after initSimulation the first 9 stars are the 9-point pattern's
\* points in order and the next 5 the 5-point pattern's; the first 8
\* connections join points k and k + 1 of the first pattern, the next 4 those
\* of the second; no connection among them joins a last point to a first, and
\* every further connection is one of the pair loop (lower index to higher).
C19_OpenChains ==
    inits > 0 =>
        /\ Len(stars) >= 9 + 5
        /\ Len(roots) >= 8 + 4
        /\ \A k \in 1..9 :
              /\ stars[k].x = CAPRICORN[k].x * 300 + fieldSize[1] * 10
              /\ stars[k].y = CAPRICORN[k].y * 300 + fieldSize[2] * 10
        /\ \A k \in 1..5 :
              /\ stars[9 + k].x = CANCER[k].x * 300 + fieldSize[1] * 60
              /\ stars[9 + k].y = CANCER[k].y * 300 + fieldSize[2] * 50
        /\ \A k \in 1..8 : Joins(k, k, k + 1)
        /\ \A k \in 1..4 : Joins(8 + k, 9 + k, 10 + k)
        /\ \A k \in 1..Len(roots) :
              /\ ~Joins(k, 9, 1)
              /\ ~Joins(k, 9 + 5, 9 + 1)
              /\ k > 8 + 4 => roots[k].startStar[2] < roots[k].endStar[2]

C19_Witness ==
    /\ inits = 2
    /\ fieldSize = <<300, 300>>
    /\ Len(stars) = 9 + 5 + 10
    /\ Len(roots) > 8 + 4
    /\ Joins(8, 8, 9)
    /\ Joins(9, 10, 11)

\* C20: a frame changes only the progress of connections and the brightness
\* and flickerSpeed of stars: every star keeps its identity, position and
\* size, every connection its two endpoints, maxDist and speed, and no star
\* or connection is added or removed.
C20_FrameLeavesGeometry ==
    [][time' = time + 1 =>
          /\ Len(stars') = Len(stars)
          /\ Len(roots') = Len(roots)
          /\ \A i \in 1..Len(stars) :
                /\ stars'[i].id = stars[i].id
                /\ stars'[i].x = stars[i].x
                /\ stars'[i].y = stars[i].y
                /\ stars'[i].size = stars[i].size
          /\ \A k \in 1..Len(roots) :
                /\ roots'[k].startStar = roots[k].startStar
                /\ roots'[k].endStar = roots[k].endStar
                /\ roots'[k].maxDist = roots[k].maxDist
                /\ roots'[k].speed = roots[k].speed
          /\ inits' = inits
          /\ fieldSize' = fieldSize]_vars

C20_Witness ==
    /\ phase = "running"
    /\ time = 2
    /\ inits = 1
    /\ \E i \in 1..Len(stars) : stars[i].flickerSpeed < 0
    /\ \E k \in 1..Len(roots) : roots[k].progress = 2 * roots[k].speed

\* C21: while the component is mounted at most one animation-frame request is
\* pending, whatever frames, window resizes, observer notifications, timers
\* and prop changes have interleaved; the pending one is the closure's raf.
C21_OneFramePending ==
    phase \in {"running", "noop"} =>
        /\ Cardinality(rafPending) <= 1
        /\ rafPending \subseteq {raf}

C21_Witness ==
    /\ phase = "running"
    /\ rafPending = {raf}
    /\ events = MaxEvents
    /\ inits = 3
    /\ opacity = 50
    /\ time = 1
    /\ roLast = <<cw, ch>>
    /\ timers = 0

\* the unordered pair of stars the k-th connection joins
PairOf(k) == {roots[k].startStar, roots[k].endStar}

\* the two stars of the k-th connection are less than 120 px apart
Within120(k) ==
    LET a == stars[roots[k].startStar[2]]
        b == stars[roots[k].endStar[2]]
    IN  /\ Abs(a.x - b.x) < 120 * 100
        /\ Abs(a.y - b.y) < 120 * 100
        /\ (a.x - b.x) * (a.x - b.x) + (a.y - b.y) * (a.y - b.y)
              < (120 * 100) * (120 * 100)

\* C22 as stated: in every Field initSimulation produces, each unordered pair
\* of distinct stars is joined by at most one connection, no connection joins
\* a star to itself, and every connection of the pair loop (those after the
\* 12 chain connections) joins stars less than 120 px apart.
C22_PairsJoinedOnce ==
    inits > 0 =>
        /\ \A j, k \in 1..Len(roots) : j # k => PairOf(j) # PairOf(k)
        /\ \A k \in 1..Len(roots) : roots[k].startStar # roots[k].endStar
        /\ \A k \in (8 + 4 + 1)..Len(roots) : Within120(k)

\* C22 amended: each unordered pair is joined by at most one chain connection
\* and at most one connection of the pair loop (so by at most two), no
\* connection joins a star to itself, and every connection of the pair loop
\* joins stars less than 120 px apart.
C22_PairsJoinedOncePerPass ==
    inits > 0 =>
        /\ \A j, k \in 1..(8 + 4) : j # k => PairOf(j) # PairOf(k)
        /\ \A j, k \in (8 + 4 + 1)..Len(roots) : j # k => PairOf(j) # PairOf(k)
        /\ \A k \in 1..Len(roots) : roots[k].startStar # roots[k].endStar
        /\ \A k \in (8 + 4 + 1)..Len(roots) : Within120(k)

C22_Witness ==
    /\ inits > 0
    /\ fieldSize = <<300, 300>>
    /\ \E j \in 1..(8 + 4), k \in (8 + 4 + 1)..Len(roots) : PairOf(j) = PairOf(k)
    /\ \E k \in (8 + 4 + 1)..Len(roots) : roots[k].startStar[2] > 9 + 5

\* C23: a mounted Toast has at most one dismissal timer pending; onClose is
\* invoked only by a timer that has run 3000 ms since the mount or the last
\* change of the onClose prop, and it is the current onClose; it is never
\* invoked after the Toast has unmounted.
C23_ToastDismissal ==
    /\ [](toast.phase = "mounted" => Cardinality(toast.timers) <= 1)
    /\ [][toast'.calls # toast.calls =>
            /\ toast.phase = "mounted"
            /\ Len(toast'.calls) = Len(toast.calls) + 1
            /\ toast'.calls[Len(toast'.calls)].cb = toast.onClose
            /\ toast.now - toast.since >= 3000]_vars

C23_Witness ==
    /\ toast.phase = "unmounted"
    /\ toast.changes = 1
    /\ toast.since = 2 * TickMs
    /\ toast.calls = << [cb |-> 2, at |-> 6 * TickMs] >>
    /\ toast.timers = {}

HtmlTimers == {x \in card.timers : x.kind = "html"}

DelayTimers == {x \in card.timers : x.kind = "delay"}

(***************************************************************************)
(* C24  ArtifactCard debounces HTML updates: while the card is mounted at  *)
(* most one debounce timer is pending, and it is the one set by the last   *)
(* change of artifact.html, with the full 150 ms from that change; every   *)
(* update of displayHtml after the first render gives it the value         *)
(* artifact.html has, which it has held for at least 150 ms; no update of  *)
(* displayHtml happens after unmount; a mounted card with no debounce      *)
(* timer pending shows artifact.html, and in every run of a card that      *)
(* stays mounted displayHtml ends up equal to artifact.html for good.      *)
(***************************************************************************)
C24_Debounce ==
    /\ [](card.phase = "mounted" =>
            /\ Cardinality(HtmlTimers) <= 1
            /\ \A x \in HtmlTimers :
                  /\ x.id = card.htmlTimer
                  /\ x.val = card.html
                  /\ x.left + card.heldHtml = HtmlDelay
            /\ (HtmlTimers = {} => card.displayHtml = card.html))
    /\ [][card.phase # "idle" /\ card'.displayHtml # card.displayHtml =>
            /\ card.phase = "mounted"
            /\ card'.displayHtml = card.html
            /\ card'.html = card.html
            /\ card.heldHtml >= 150]_vars
    /\ [][card'.html # card.html /\ card.phase = "mounted" =>
            /\ card.htmlTimer \notin {x.id : x \in card'.timers}
            /\ \E x \in card'.timers :
                  x.kind = "html" /\ x.left = 150 /\ x.val = card'.html]_vars
    /\ (<>[](card.phase = "mounted") => <>[](card.displayHtml = card.html))

\* a debounce timer was cancelled by a second change, and the third value
\* reached displayHtml after its own 150 ms
C24_Witness ==
    /\ card.phase = "mounted"
    /\ card.changes = 2
    /\ card.id = 1
    /\ card.htmlTimer = 4
    /\ HtmlTimers = {}
    /\ card.displayHtml = <<4, 600>>
    /\ card.html = <<4, 600>>
    /\ Len(card.commits) = 1

(***************************************************************************)
(* C25  ArtifactCard delays mounting the iframe: no render committed less  *)
(* than 600 ms after the mount or after a change of artifact.id has the    *)
(* iframe; a render has it only if renderDelayComplete is set for the      *)
(* current artifact.id and displayHtml has more than 50 characters; at     *)
(* most one delay timer is pending, and a change of artifact.id cancels    *)
(* the old timer and starts a new one with the full 600 ms.                *)
(***************************************************************************)
C25_IframeDelayed ==
    /\ [](\A i \in 1..Len(card.commits) :
            /\ card.commits[i].since < 600 => ~card.commits[i].iframe
            /\ card.commits[i].iframe => card.displayHtml[2] > 50)
    /\ [](card.phase = "mounted" =>
            /\ Cardinality(DelayTimers) <= 1
            /\ \A x \in DelayTimers :
                  /\ x.id = card.delayTimer
                  /\ x.left + card.sinceId = IframeDelay
            /\ (card.renderDelayComplete => card.sinceId >= 600))
    /\ [][card'.id # card.id =>
            /\ card.delayTimer \notin {x.id : x \in card'.timers}
            /\ \E x \in card'.timers : x.kind = "delay" /\ x.left = 600]_vars

====
